---------------------------- MODULE Spec2Model ----------------------------
(***************************************************************************)
(* A model of the GlyphOS kernel (core.py, phase.py, validation.py).       *)
(*                                                                         *)
(* The kernel is a library of functions over Python floats, complex        *)
(* numbers and a random.Random generator.  The model is the session of a   *)
(* caller: the generator the caller holds, the last call made (function    *)
(* and arguments) and what it returned or raised.  Every function of the   *)
(* library is an operator, computed the way the code computes it, over a   *)
(* small float format: sign-magnitude, fixed point with S units per 1.0,   *)
(* largest finite magnitude FMax, signed zeros, infinities and NaN.        *)
(***************************************************************************)
EXTENDS Integers, Sequences, FiniteSets, TLC

(***************************************************************************)
(* The float format.                                                       *)
(***************************************************************************)
S == 10 * 10 * 10
FMax == 200 * S * S

Fin(s, m) == [s |-> s, m |-> m, k |-> "fin"]
Inf(s) == [s |-> s, m |-> 0, k |-> "inf"]
NaN == [s |-> 1, m |-> 0, k |-> "nan"]
\* A Python int (before float() is applied to it).
PyInt(n) == [s |-> IF n < 0 THEN -1 ELSE 1, m |-> IF n < 0 THEN -n ELSE n, k |-> "int"]

AbsI(n) == IF n < 0 THEN -n ELSE n
MinI(a, b) == IF a <= b THEN a ELSE b
MaxI(a, b) == IF a <= b THEN b ELSE a

\* The float with the fixed-point value v (v units of 1/S).
FromFix(v) == Fin(IF v < 0 THEN -1 ELSE 1, AbsI(v))
\* The float of a whole number n.
Lit(n) == FromFix(n * S)
Zero == Fin(1, 0)
NegZero == Fin(-1, 0)
One == Lit(1)

\* float(x): a float is itself, an int becomes the float of the same value
\* (OverflowError is outside the ints the model uses).
ToFloat(x) == IF x.k = "int" THEN Fin(x.s, x.m * S) ELSE x

IsFinite(x) == x.k = "fin"
IsNaN(x) == x.k = "nan"
\* The value as an extended integer; infinities lie beyond every finite value.
Val(x) == IF x.k = "inf" THEN x.s * (FMax + 1) ELSE x.s * x.m
FLe(x, y) == ~IsNaN(x) /\ ~IsNaN(y) /\ Val(x) <= Val(y)
FLt(x, y) == ~IsNaN(x) /\ ~IsNaN(y) /\ Val(x) < Val(y)
FGt(x, y) == FLt(y, x)
IsZero(x) == x.k = "fin" /\ x.m = 0

FNeg(x) == IF IsNaN(x) THEN NaN ELSE [x EXCEPT !.s = -x.s]
FAbs(x) == IF IsNaN(x) THEN NaN ELSE [x EXCEPT !.s = 1]

\* A finite result of magnitude m, or the infinity it overflows to.
Round(s, m) == IF m > FMax THEN Inf(s) ELSE Fin(s, m)

\* The magnitude of a product, floor(a * b / S), computed on the high and low
\* parts of the factors so that no intermediate exceeds the host integers;
\* FMax + 1 stands for every magnitude beyond FMax.
MulMag(a, b) ==
    LET a1 == a \div S
        a0 == a % S
        b1 == b \div S
        b0 == b % S
    IN IF a1 > 0 /\ b1 > 0 /\ a1 > (FMax \div S) \div b1 THEN FMax + 1
       ELSE a1 * b1 * S + a1 * b0 + a0 * b1 + (a0 * b0) \div S

\* floor(r * scale / b) for r < b, one decimal digit at a time.
RECURSIVE DivDigits(_, _, _)
DivDigits(r, b, scale) ==
    IF scale <= 1 THEN 0
    ELSE LET r10 == r * 10
         IN (r10 \div b) * (scale \div 10) + DivDigits(r10 % b, b, scale \div 10)

\* The magnitude of a quotient, floor(a * S / b) for b > 0.
DivMag(a, b) ==
    IF a \div b > FMax \div S THEN FMax + 1
    ELSE (a \div b) * S + DivDigits(a % b, b, S)

FAdd(x, y) ==
    IF IsNaN(x) \/ IsNaN(y) THEN NaN
    ELSE IF x.k = "inf" /\ y.k = "inf" THEN (IF x.s = y.s THEN x ELSE NaN)
    ELSE IF x.k = "inf" THEN x
    ELSE IF y.k = "inf" THEN y
    ELSE LET v == x.s * x.m + y.s * y.m
         IN IF v = 0
            THEN (IF x.s = -1 /\ y.s = -1 THEN NegZero ELSE Zero)
            ELSE Round(IF v < 0 THEN -1 ELSE 1, AbsI(v))

FSub(x, y) == FAdd(x, FNeg(y))

FMul(x, y) ==
    IF IsNaN(x) \/ IsNaN(y) THEN NaN
    ELSE IF (x.k = "inf" /\ IsZero(y)) \/ (y.k = "inf" /\ IsZero(x)) THEN NaN
    ELSE IF x.k = "inf" \/ y.k = "inf" THEN Inf(x.s * y.s)
    ELSE IF x.m = 0 \/ y.m = 0 THEN Fin(x.s * y.s, 0)
    ELSE Round(x.s * y.s, MulMag(x.m, y.m))

\* x / y for y # 0 (Python raises ZeroDivisionError on a zero divisor; every
\* division of the kernel that is modelled has a divisor its guards make nonzero).
FDiv(x, y) ==
    IF IsNaN(x) \/ IsNaN(y) THEN NaN
    ELSE IF x.k = "inf" /\ y.k = "inf" THEN NaN
    ELSE IF x.k = "inf" THEN Inf(x.s * y.s)
    ELSE IF y.k = "inf" THEN Fin(x.s * y.s, 0)
    ELSE IF y.m = 0 THEN NaN
    ELSE Round(x.s * y.s, DivMag(x.m, y.m))

\* The integer square root, by bisection.
RECURSIVE ISqrtIn(_, _, _)
ISqrtIn(n, lo, hi) ==
    IF lo >= hi THEN lo
    ELSE LET mid == (lo + hi + 1) \div 2
         IN IF mid * mid <= n THEN ISqrtIn(n, mid, hi) ELSE ISqrtIn(n, lo, mid - 1)
ISqrt(n) == ISqrtIn(n, 0, MinI(n, 46340))
\* floor(sqrt(m * S)), the magnitude of the square root of magnitude m.
SqrtMag(m) ==
    IF m <= FMax \div 100 THEN ISqrt(m * S)
    ELSE ISqrt(m * 10) * ISqrt(S \div 10)

\* math.sqrt on the non-negative arguments the kernel gives it.
FSqrt(x) ==
    IF IsNaN(x) THEN NaN
    ELSE IF x.k = "inf" THEN (IF x.s = 1 THEN x ELSE NaN)
    ELSE IF x.m = 0 THEN x
    ELSE IF x.s = -1 THEN NaN
    ELSE Fin(1, SqrtMag(x.m))

\* ln 2 and the natural logarithm of a positive fixed-point magnitude: exact
\* at the powers of two, interpolated between them.
Ln2 == (693 * S) \div 1000
RECURSIVE ILn(_)
ILn(m) ==
    IF m >= 2 * S THEN Ln2 + ILn(m \div 2)
    ELSE IF m < S THEN ILn(2 * m) - Ln2
    ELSE ((m - S) * Ln2) \div S
\* math.log of a finite float > 0.
FLog(x) == FromFix(ILn(x.m))

\* x ** n for an int n, by repeated multiplication (n < 0: the reciprocal).
RECURSIVE FPowNat(_, _)
FPowNat(x, n) == IF n = 0 THEN One ELSE FMul(x, FPowNat(x, n - 1))
FPow(x, n) == IF n >= 0 THEN FPowNat(x, n) ELSE FDiv(One, FPowNat(x, -n))

\* math.pi, 2.0 * math.pi and pi / 2 in the float format.
PiF == (3142 * S) \div 1000
TwoPiF == 2 * PiF
HalfPiF == PiF \div 2
PiFloat == Fin(1, PiF)

\* x % y for a finite y > 0: the result has the sign of y and lies in [0, y).
FMod(x, y) ==
    IF ~IsFinite(x) \/ ~IsFinite(y) THEN NaN
    ELSE Fin(1, (x.s * x.m) % y.m)

\* sin on [0, pi] (Bhaskara's rational approximation: 0 at 0 and pi, 1 at pi/2).
SinCore(x) ==
    LET p == x * (PiF - x)
    IN (16 * p) \div ((5 * PiF * PiF - 4 * p) \div S)
\* sin and cos of a fixed-point angle u in [0, 2 pi).
SinU(u) == IF u <= PiF THEN SinCore(u) ELSE -SinCore(u - PiF)
CosU(u) == SinU((u + HalfPiF) % TwoPiF)
FSin(x) ==
    IF ~IsFinite(x) THEN NaN
    ELSE IF x.m = 0 THEN x
    ELSE FromFix(x.s * SinU(x.m % TwoPiF))
FCos(x) == IF ~IsFinite(x) THEN NaN ELSE FromFix(CosU(x.m % TwoPiF))

\* atan on [0, 1]: t * pi/4 + 0.273 * t * (1 - t).
AtanCore(t) == ((PiF \div 4) * t) \div S + (273 * t * (S - t)) \div (S * S)
Mag(x) == IF x.k = "inf" THEN FMax + 1 ELSE x.m
\* math.atan2(y, x): the result has the sign of y, a zero y included.
FAtan2(y, x) ==
    IF IsNaN(x) \/ IsNaN(y) THEN NaN
    ELSE LET my == Mag(y)
             mx == Mag(x)
             a == IF my = 0 THEN 0
                  ELSE IF my <= mx THEN AtanCore(DivMag(my, mx))
                  ELSE HalfPiF - AtanCore(DivMag(mx, my))
         IN Fin(y.s, IF x.s = 1 THEN a ELSE PiF - a)

\* sqrt(a^2 + b^2) without forming the squares of large magnitudes.
FHypot(x, y) ==
    IF x.k = "inf" \/ y.k = "inf" THEN Inf(1)
    ELSE IF IsNaN(x) \/ IsNaN(y) THEN NaN
    ELSE LET hi == MaxI(x.m, y.m)
             lo == MinI(x.m, y.m)
         IN IF hi = 0 THEN Zero
            ELSE LET t == DivMag(lo, hi)
                 IN Round(1, MulMag(hi, ISqrt(S * S + t * t)))

(***************************************************************************)
(* Complex numbers: a pair of floats.                                      *)
(***************************************************************************)
Cx(re, im) == [re |-> re, im |-> im]
\* A float used in complex arithmetic: complex(x, 0.0).
CxOf(x) == Cx(x, Zero)
CMul(a, b) == Cx(FSub(FMul(a.re, b.re), FMul(a.im, b.im)),
                 FAdd(FMul(a.re, b.im), FMul(a.im, b.re)))
CSub(a, b) == Cx(FSub(a.re, b.re), FSub(a.im, b.im))
CAdd(a, b) == Cx(FAdd(a.re, b.re), FAdd(a.im, b.im))
\* abs(z), cmath.phase(z) and cmath.exp(1j * th).
CAbs(z) == FHypot(z.re, z.im)
CPhase(z) == FAtan2(z.im, z.re)
CExpI(th) == Cx(FCos(th), FSin(th))

(***************************************************************************)
(* Python values shared by the functions.                                  *)
(***************************************************************************)
\* An optional argument: None, or a value.
None == [some |-> FALSE]
Some(v) == [v |-> v, some |-> TRUE]
\* What a call does: it returns a value, or it raises.
Return(v) == [raised |-> FALSE, value |-> v]
\* what names the check that failed; detail is the rest of the message.
Raise(exc, what, detail) == [raised |-> TRUE, exc |-> exc, what |-> what, detail |-> detail]
\* The first of the bad indices (1-based), 0 when there is none.
FirstBad(bad) == IF bad = {} THEN 0 ELSE CHOOSE i \in bad : \A j \in bad : i <= j

(***************************************************************************)
(* core.py: constants and laws.                                            *)
(***************************************************************************)
PHI == FDiv(FAdd(One, FSqrt(Lit(5))), Lit(2))
PI == PiFloat
F_432 == Lit(432)
F_838_776 == FromFix((838776 * S) \div 1000)
ANCHOR_TOL_HZ == FromFix(S \div 1000)

has_anchor(freqs_hz, target_hz, tol_hz) ==
    \E i \in 1..Len(freqs_hz) :
        FLe(FAbs(FSub(ToFloat(freqs_hz[i]), ToFloat(target_hz))), tol_hz)

golden_pi(phi) == FDiv(Lit(4), FSqrt(phi))

bridge_frequency(base_freq_hz, pi, phi) ==
    FMul(ToFloat(base_freq_hz), FDiv(ToFloat(pi), ToFloat(phi)))

harmonic_ladder(f0_hz, n, m, pi, phi) ==
    LET pi_phi == golden_pi(phi)
        r == FDiv(ToFloat(pi), ToFloat(pi_phi))
    IN FMul(FMul(ToFloat(f0_hz), FPow(r, n)), FPow(ToFloat(phi), m))

(***************************************************************************)
(* core.py: mjlog.                                                         *)
(***************************************************************************)
\* nu0_hz is rejected: not finite, or <= 0.
MjBadNu0(nu0_f) == ~IsFinite(nu0_f) \/ FLe(nu0_f, Zero)
\* The first nu_i_hz[i] that is not finite or <= 0 (0: none).
MjBadNu(nu_i) ==
    FirstBad({i \in 1..Len(nu_i) : ~IsFinite(nu_i[i]) \/ FLe(nu_i[i], Zero)})
\* Mutant of MjBadA: the scale values are left to the per-cell check.
MjBadA_PerCell(a) == 0
\* The first a_j[j] that is not finite or <= 0 (0: none).
MjBadA(a) ==
    FirstBad({j \in 1..Len(a) : ~IsFinite(a[j]) \/ FLe(a[j], Zero)})
\* Mutant of ThetaRowCountBad: only too few rows are rejected.
ThetaRowCountBad_TooFew(theta, N) == Len(theta) < N
\* A supplied theta with a row count other than len(nu_i_hz).
ThetaRowCountBad(theta, N) == Len(theta) # N
\* Row `row` of a supplied theta is rejected: its length is not len(a_j), or
\* an entry is not finite.
ThetaRowBad(row, K) ==
    \/ Len(row) # K
    \/ \E j \in 1..K : ~IsFinite(ToFloat(row[j]))

\* The log-argument of a cell, and its rejection.
LogArg(nu, nu0_f, aj) == FMul(FDiv(nu, nu0_f), aj)
BadLogArg(arg) == ~IsFinite(arg) \/ FLe(arg, Zero)

mjlog(nu_i_hz, a_j, nu0_hz, theta_ij) ==
    LET nu0_f == ToFloat(nu0_hz)
        N == Len(nu_i_hz)
        K == Len(a_j)
        nu_i == [i \in 1..N |-> ToFloat(nu_i_hz[i])]
        a == [j \in 1..K |-> ToFloat(a_j[j])]
        badRow == FirstBad({i \in 1..N : ThetaRowBad(theta_ij.v[i], K)})
        theta == IF ~theta_ij.some
                 THEN [i \in 1..N |-> [j \in 1..K |-> Zero]]
                 ELSE [i \in 1..Len(theta_ij.v) |->
                          [j \in 1..Len(theta_ij.v[i]) |-> ToFloat(theta_ij.v[i][j])]]
        badCellRow ==
            FirstBad({i \in 1..N : \E j \in 1..K : BadLogArg(LogArg(nu_i[i], nu0_f, a[j]))})
        Cell(i, j) == CMul(CxOf(FLog(LogArg(nu_i[i], nu0_f, a[j]))), CExpI(theta[i][j]))
    IN IF MjBadNu0(nu0_f) THEN Raise("ValueError", "nu0_hz", <<>>)
       ELSE IF MjBadNu(nu_i) # 0 THEN Raise("ValueError", "nu_i_hz", MjBadNu(nu_i) - 1)
       ELSE IF MjBadA(a) # 0 THEN Raise("ValueError", "a_j", MjBadA(a) - 1)
       ELSE IF theta_ij.some /\ ThetaRowCountBad(theta_ij.v, N)
            THEN Raise("ValueError", "theta_ij row count", <<Len(theta_ij.v), N>>)
       ELSE IF theta_ij.some /\ badRow # 0
            THEN Raise("ValueError", "theta_ij row", badRow - 1)
       ELSE IF badCellRow # 0
            THEN Raise("ValueError", "log-argument", badCellRow - 1)
       ELSE Return([i \in 1..N |-> [j \in 1..K |-> Cell(i, j)]])

(***************************************************************************)
(* core.py: the gate validators.                                           *)
(***************************************************************************)
GateResult(gate_id, eligible, reason) ==
    [gate_id |-> gate_id, eligible |-> eligible, reason |-> reason]

_is_pos_finite(x) == IsFinite(x) /\ FGt(x, Zero)

gate_11(nu_i_hz, a_j, nu0_hz, require_432, require_838) ==
    LET nu0_f == ToFloat(nu0_hz)
        badNu == {i \in 1..Len(nu_i_hz) : ~_is_pos_finite(ToFloat(nu_i_hz[i]))}
        badA == {j \in 1..Len(a_j) : ~_is_pos_finite(ToFloat(a_j[j]))}
        has_432 == has_anchor(nu_i_hz, F_432, ANCHOR_TOL_HZ)
        has_838_776 == has_anchor(nu_i_hz, F_838_776, ANCHOR_TOL_HZ)
    IN IF ~_is_pos_finite(nu0_f)
       THEN GateResult("GATE11", FALSE, <<"nu0_hz must be finite and > 0">>)
       ELSE IF Len(nu_i_hz) = 0
       THEN GateResult("GATE11", FALSE, <<"nu_i_hz must be non-empty">>)
       ELSE IF Len(a_j) = 0
       THEN GateResult("GATE11", FALSE, <<"a_j must be non-empty">>)
       ELSE IF FirstBad(badNu) # 0
       THEN GateResult("GATE11", FALSE, <<"nu_i_hz[i] must be finite and > 0">>)
       ELSE IF FirstBad(badA) # 0
       THEN GateResult("GATE11", FALSE, <<"a_j[j] must be finite and > 0">>)
       ELSE IF require_432 /\ ~has_432
       THEN GateResult("GATE11", FALSE, <<"432 Hz anchor required but missing">>)
       ELSE IF require_838 /\ ~has_838_776
       THEN GateResult("GATE11", FALSE, <<"838.776 Hz anchor required but missing">>)
       ELSE GateResult("GATE11", TRUE, <<"OK">>)

gate_22(nu_i_hz, a_j, nu0_hz) ==
    LET g11 == gate_11(nu_i_hz, a_j, nu0_hz, FALSE, FALSE)
        pi_phi == golden_pi(PHI)
        fb == bridge_frequency(F_432, PI, PHI)
    IN IF ~g11.eligible
       THEN GateResult("GATE22", FALSE, <<"Prereq", g11.gate_id, g11.reason>>)
       ELSE IF ~_is_pos_finite(pi_phi) \/ ~_is_pos_finite(fb)
       THEN GateResult("GATE22", FALSE, <<"Invariant computation failed">>)
       ELSE GateResult("GATE22", TRUE, <<"OK">>)

gate_33(nu_i_hz, a_j, nu0_hz) ==
    LET g22 == gate_22(nu_i_hz, a_j, nu0_hz)
    IN IF ~g22.eligible
       THEN GateResult("GATE33", FALSE, <<"Prereq", g22.gate_id, g22.reason>>)
       ELSE GateResult("GATE33", TRUE, <<"OK">>)

\* Mutant of gate_44: the anchors are looked for, the prerequisite results
\* are not.
gate_44_AnchorsOnly(nu_i_hz, a_j, nu0_hz) ==
    GateResult("GATE44",
               has_anchor(nu_i_hz, F_432, ANCHOR_TOL_HZ)
                   /\ has_anchor(nu_i_hz, F_838_776, ANCHOR_TOL_HZ),
               <<"OK">>)

gate_44(nu_i_hz, a_j, nu0_hz) ==
    LET g11 == gate_11(nu_i_hz, a_j, nu0_hz, TRUE, TRUE)
        g22 == gate_22(nu_i_hz, a_j, nu0_hz)
    IN IF ~g11.eligible
       THEN GateResult("GATE44", FALSE, <<"Prereq", g11.gate_id, g11.reason>>)
       ELSE IF ~g22.eligible
       THEN GateResult("GATE44", FALSE, <<"Prereq", g22.gate_id, g22.reason>>)
       ELSE GateResult("GATE44", TRUE, <<"OK">>)

(***************************************************************************)
(* phase.py: retarded delays and the retarded phase matrix.                *)
(***************************************************************************)
\* d2 over zip(xi, x_star): the sum of the squared differences.
RECURSIVE Dist2(_, _, _)
Dist2(xi, xk, n) ==
    IF n = 0 THEN Zero
    ELSE LET d == FSub(ToFloat(xi[n]), ToFloat(xk[n]))
         IN FAdd(Dist2(xi, xk, n - 1), FMul(d, d))

retarded_delays(X, x_star, v) ==
    LET badRows == {i \in 1..Len(X) : Len(X[i]) # Len(x_star)}
    IN IF FLe(ToFloat(v), Zero) THEN Raise("ValueError", "v", <<>>)
       ELSE IF FirstBad(badRows) # 0
       THEN Raise("ValueError", "dimension", <<>>)
       ELSE Return([i \in 1..Len(X) |->
                FDiv(FSqrt(Dist2(X[i], x_star, Len(x_star))), ToFloat(v))])

retarded_phase_matrix(a_j, tau_i, nu0_hz, t, psi_j) ==
    LET K == Len(a_j)
        psi == IF ~psi_j.some THEN [j \in 1..K |-> Zero]
               ELSE [j \in 1..Len(psi_j.v) |-> ToFloat(psi_j.v[j])]
        Omega == [j \in 1..K |->
                    FMul(FMul(FMul(Lit(2), PiFloat), ToFloat(nu0_hz)), ToFloat(a_j[j]))]
    IN IF Len(psi) # K THEN Raise("ValueError", "psi_j", <<>>)
       ELSE Return([i \in 1..Len(tau_i) |-> [j \in 1..K |->
                FAdd(FMul(Omega[j], FSub(ToFloat(t), ToFloat(tau_i[i]))), psi[j])]])

(***************************************************************************)
(* random.Random: a generator is its state; every primitive draw reads the *)
(* state and steps it.                                                     *)
(***************************************************************************)
RngMod == 16
\* random.Random(n)
Seeded(n) == n % RngMod
RngStep(g) == (5 * g + 3) % RngMod
\* rng.random(): a float in [0, 1).
RngRandom(g) == Fin(1, (g * S) \div RngMod)
\* rng._randbelow(n): an int in 0..n-1.
RandBelow(g, n) == (g \div 4) % n
\* rng.uniform(a, b) == a + (b - a) * rng.random()
RngUniform(g, a, b) == FAdd(a, FMul(FSub(b, a), RngRandom(g)))

\* Mutant of Sample2: two independent draws (rng.choices), which an axis of
\* length 1 satisfies.
Sample2_WithReplacement(g, n) ==
    IF n < 1 THEN [ok |-> FALSE, gen |-> g]
    ELSE [ok |-> TRUE, a |-> RandBelow(g, n), b |-> RandBelow(RngStep(g), n),
          gen |-> RngStep(RngStep(g))]

\* rng.sample(range(n), 2): ValueError before any draw when n < 2; else two
\* draws from the pool 0..n-1, the drawn slot refilled with the pool's last.
Sample2(g, n) ==
    IF n < 2 THEN [ok |-> FALSE, gen |-> g]
    ELSE LET j0 == RandBelow(g, n)
             g1 == RngStep(g)
             j1 == RandBelow(g1, n - 1)
         IN [ok |-> TRUE, a |-> j0, b |-> IF j1 = j0 THEN n - 1 ELSE j1,
             gen |-> RngStep(g1)]

\* rng.shuffle(x): for i from len-1 down to 1, swap x[i] with x[randbelow(i+1)].
RECURSIVE Shuffle(_, _, _)
Shuffle(x, i, g) ==
    IF i < 1 THEN [list |-> x, gen |-> g]
    ELSE LET j == RandBelow(g, i + 1)
         IN Shuffle([x EXCEPT ![i + 1] = x[j + 1], ![j + 1] = x[i + 1]], i - 1, RngStep(g))

\* Mutant of RngOrDefault: every call starts from a fresh random.Random(0).
RngOrDefault_Reseed(rng) == Seeded(0)
\* The generator a function works on: the one supplied, else random.Random(0).
RngOrDefault(rng) == IF rng.some THEN rng.v ELSE Seeded(0)

(***************************************************************************)
(* validation.py                                                           *)
(***************************************************************************)
\* Mutant of _wrap_pi: the shift by pi before the modulo is missing.
_wrap_pi_NoShift(x) == FSub(FMod(x, FMul(Lit(2), PiFloat)), PiFloat)

_wrap_pi(x) == FSub(FMod(FAdd(x, PiFloat), FMul(Lit(2), PiFloat)), PiFloat)

RECURSIVE GradientLoop(_, _, _, _, _, _, _)
GradientLoop(theta_ij, X, edges, j, e, acc, n) ==
    IF e > Len(edges) THEN [acc |-> acc, n |-> n]
    ELSE LET i == edges[e][1] + 1
             k == edges[e][2] + 1
             dist == FSqrt(Dist2(X[i], X[k], MinI(Len(X[i]), Len(X[k]))))
             dth == _wrap_pi(FSub(ToFloat(theta_ij[i][j + 1]), ToFloat(theta_ij[k][j + 1])))
         IN IF FLe(dist, Zero)
            THEN GradientLoop(theta_ij, X, edges, j, e + 1, acc, n)
            ELSE GradientLoop(theta_ij, X, edges, j, e + 1,
                              FAdd(acc, FDiv(FAbs(dth), dist)), n + 1)

phase_gradient_proxy(theta_ij, X, edges, j) ==
    LET r == GradientLoop(theta_ij, X, edges, j, 1, Zero, 0)
    IN Return(IF r.n # 0 THEN FDiv(r.acc, Lit(r.n)) ELSE Zero)

\* One pass of the sampling loop per remaining sample; the generator g is the
\* one the previous pass left.
RECURSIVE SampleLoop(_, _, _, _, _, _, _)
SampleLoop(M, N, K, left, g, mags, phases) ==
    IF left <= 0 THEN [result |-> Return(<<mags, phases>>), gen |-> g]
    ELSE LET rows == Sample2(g, N)
             cols == Sample2(rows.gen, K)
         IN IF ~rows.ok
            THEN [result |-> Raise("ValueError", "sample", <<>>),
                  gen |-> rows.gen]
            ELSE IF ~cols.ok
            THEN [result |-> Raise("ValueError", "sample", <<>>),
                  gen |-> cols.gen]
            ELSE LET i1 == rows.a + 1
                     i2 == rows.b + 1
                     j1 == cols.a + 1
                     j2 == cols.b + 1
                 IN IF MaxI(j1, j2) > MinI(Len(M[i1]), Len(M[i2]))
                    THEN [result |-> Raise("IndexError", "index", <<>>),
                          gen |-> cols.gen]
                    ELSE LET d == CSub(CMul(M[i1][j1], M[i2][j2]),
                                       CMul(M[i1][j2], M[i2][j1]))
                         IN SampleLoop(M, N, K, left - 1, cols.gen,
                                       Append(mags, CAbs(d)), Append(phases, CPhase(d)))

\* Mutant of sample_minors: a matrix with too few rows or columns yields no
\* sample.
sample_minors_EmptyWhenSmall(M, n_samples, rng) ==
    LET N == Len(M)
        K == IF N # 0 THEN Len(M[1]) ELSE 0
    IN IF N < 2 \/ K < 2
       THEN [result |-> Return(<<<<>>, <<>>>>), gen |-> RngOrDefault(rng)]
       ELSE SampleLoop(M, N, K, n_samples, RngOrDefault(rng), <<>>, <<>>)

sample_minors(M, n_samples, rng) ==
    LET N == Len(M)
        K == IF N # 0 THEN Len(M[1]) ELSE 0
    IN SampleLoop(M, N, K, n_samples, RngOrDefault(rng), <<>>, <<>>)

\* s = sum(cmath.exp(1j * float(p)) for p in phases), from the int 0.
RECURSIVE PhasorSum(_, _)
PhasorSum(phases, n) ==
    IF n = 0 THEN CxOf(Zero)
    ELSE CAdd(PhasorSum(phases, n - 1), CExpI(ToFloat(phases[n])))

\* Mutant of mean_resultant_length: no guard for the empty sequence.
mean_resultant_length_NoGuard(phases) ==
    IF Len(phases) = 0 THEN Raise("ZeroDivisionError", "len", <<>>)
    ELSE Return(FDiv(CAbs(PhasorSum(phases, Len(phases))), Lit(Len(phases))))

mean_resultant_length(phases) ==
    Return(IF Len(phases) # 0
           THEN FDiv(CAbs(PhasorSum(phases, Len(phases))), Lit(Len(phases)))
           ELSE Zero)

\* The cells of M in row-major order, one rng.uniform draw per cell.
RECURSIVE ScrambleRow(_, _, _, _)
ScrambleRow(row, j, g, out_row) ==
    IF j > Len(row) THEN [row |-> out_row, gen |-> g]
    ELSE LET mag == CAbs(row[j])
             ph == RngUniform(g, FNeg(PiFloat), PiFloat)
         IN ScrambleRow(row, j + 1, RngStep(g),
                        Append(out_row, CMul(CxOf(mag), CExpI(ph))))

RECURSIVE ScrambleRows(_, _, _, _)
ScrambleRows(M, i, g, out) ==
    IF i > Len(M) THEN [result |-> Return(out), gen |-> g]
    ELSE LET r == ScrambleRow(M[i], 1, g, <<>>)
         IN ScrambleRows(M, i + 1, r.gen, Append(out, r.row))

phase_scramble(M, rng) == ScrambleRows(M, 1, RngOrDefault(rng), <<>>)

\* Mutant of tau_shuffle: the caller's list itself is shuffled, not a copy.
tau_shuffle_InPlace(tau_i, rng) ==
    LET r == Shuffle(tau_i, Len(tau_i) - 1, RngOrDefault(rng))
    IN [result |-> Return(r.list), gen |-> r.gen, tau_i |-> r.list]

\* tau_i in the result is the caller's list after the call: the shuffle works
\* on the copy list(map(float, tau_i)).
tau_shuffle(tau_i, rng) ==
    LET tau == [i \in 1..Len(tau_i) |-> ToFloat(tau_i[i])]
        r == Shuffle(tau, Len(tau) - 1, RngOrDefault(rng))
    IN [result |-> Return(r.list), gen |-> r.gen, tau_i |-> tau_i]

build_retarded_mjlog(X, nu_i_hz, a_j, nu0_hz, x_star, v, t) ==
    LET tau == retarded_delays(X, x_star, v)
        theta == retarded_phase_matrix(a_j, tau.value, nu0_hz, t, None)
        M == mjlog(nu_i_hz, a_j, nu0_hz, Some(theta.value))
    IN IF tau.raised THEN tau
       ELSE IF theta.raised THEN theta
       ELSE IF M.raised THEN M
       ELSE Return(<<M.value, theta.value, tau.value>>)

(***************************************************************************)
(* The caller's session.                                                   *)
(*   args    the arguments the caller has in hand (chosen once)            *)
(*   call    the last call made: the function and its per-call arguments   *)
(*   ret     what that call returned or raised                             *)
(*   kept    the gate results the caller has kept, by gate                 *)
(*   rng     the random.Random generator the caller holds                  *)
(*   rcalls  the number of calls the caller has passed its generator to    *)
(*   rng2, ret2   a second run of the same calls from the same seed        *)
(***************************************************************************)
VARIABLES args, call, ret, kept, rng, rcalls, rng2, ret2

vars == <<args, call, ret, kept, rng, rcalls, rng2, ret2>>

\* Bounds of the model.
MaxLen == 2
MaxN == 3
MaxCalls == 3
MaxSamples == 2
MaxDim == 2
MaxTau == 3
MaxTurns == 2

SeqsUpTo(Vals, n) == UNION {[1..k -> Vals] : k \in 0..n}

NoArgs ==
    [m |-> 0, v |-> One, x |-> Zero, t |-> Zero, j |-> 0, f0_hz |-> One,
     nu_i_hz |-> <<>>, a_j |-> <<>>, nu0_hz |-> One, theta_ij |-> None,
     X |-> <<>>, x_star |-> <<>>, tau_i |-> <<>>, edges |-> <<>>, M |-> <<>>,
     phases |-> <<>>]

NoKept == [g \in {"gate_11", "gate_22", "gate_33", "gate_44"} |-> None]

\* The state before any call, with the arguments a.
Start(a, seed) ==
    /\ args = a
    /\ call = [op |-> "none"]
    /\ ret = None
    /\ kept = NoKept
    /\ rng = Seeded(seed)
    /\ rng2 = Seeded(seed)
    /\ ret2 = None
    /\ rcalls = 0

\* A call of a function that takes no generator.
Pure(c, r) ==
    /\ call' = c
    /\ ret' = r
    /\ ret2' = r
    /\ UNCHANGED <<args, kept, rng, rng2, rcalls>>

(***************************************************************************)
(* The gates.                                                              *)
(***************************************************************************)
GateNuVals == {F_432, FAdd(F_838_776, ANCHOR_TOL_HZ),
               FAdd(F_432, FMul(Lit(2), ANCHOR_TOL_HZ)), NaN}
GateAVals == {One, Lit(-1)}
GateNu0Vals == {One, Zero}

InitGates ==
    \E nu \in SeqsUpTo(GateNuVals, MaxLen), a \in SeqsUpTo(GateAVals, MaxLen),
       nu0 \in GateNu0Vals :
        Start([NoArgs EXCEPT !.nu_i_hz = nu, !.a_j = a, !.nu0_hz = nu0], 0)

Gate(c, g) ==
    /\ call' = c
    /\ ret' = Return(g)
    /\ ret2' = Return(g)
    /\ kept' = [kept EXCEPT ![c.op] = Some([result |-> g, call |-> c])]
    /\ UNCHANGED <<args, rng, rng2, rcalls>>

CallGate11 ==
    \E require_432 \in BOOLEAN, require_838 \in BOOLEAN :
        Gate([require_432 |-> require_432, require_838 |-> require_838, op |-> "gate_11"],
             gate_11(args.nu_i_hz, args.a_j, args.nu0_hz, require_432, require_838))
CallGate22 == Gate([op |-> "gate_22"], gate_22(args.nu_i_hz, args.a_j, args.nu0_hz))
CallGate33 == Gate([op |-> "gate_33"], gate_33(args.nu_i_hz, args.a_j, args.nu0_hz))
CallGate44 == Gate([op |-> "gate_44"], gate_44(args.nu_i_hz, args.a_j, args.nu0_hz))

NextGates == CallGate11 \/ CallGate22 \/ CallGate33 \/ CallGate44
SpecGates == InitGates /\ [][NextGates]_vars

(***************************************************************************)
(* The laws: golden_pi, bridge_frequency, harmonic_ladder.                 *)
(***************************************************************************)
LadderF0Vals == {Lit(432), PyInt(432), Lit(1), FromFix(S \div 2), Zero, Lit(-432)}

InitLaws ==
    \E f0 \in LadderF0Vals, m \in -1..1 :
        Start([NoArgs EXCEPT !.f0_hz = f0, !.m = m], 0)

CallGoldenPi == Pure([op |-> "golden_pi"], Return(golden_pi(PHI)))
CallBridgeFrequency ==
    Pure([op |-> "bridge_frequency"], Return(bridge_frequency(args.f0_hz, PI, PHI)))
CallHarmonicLadder ==
    \E n \in 0..MaxN :
        Pure([n |-> n, op |-> "harmonic_ladder"],
             Return(harmonic_ladder(args.f0_hz, n, args.m, PI, PHI)))

NextLaws == CallGoldenPi \/ CallBridgeFrequency \/ CallHarmonicLadder
SpecLaws == InitLaws /\ [][NextLaws]_vars

(***************************************************************************)
(* mjlog.                                                                  *)
(***************************************************************************)
Big == Lit(150000)
Tiny == FromFix(1)
MjNuVals == {Lit(2), Zero}
MjAVals == {FromFix(S \div 2), Lit(-1), Big}
MjNu0Vals == {One, Tiny, Big, Zero, NaN}
\* A supplied theta: R rows of C entries th, the last row one entry short
\* when ragged.
ThetaOf(R, C, th, ragged) ==
    [i \in 1..R |-> [j \in 1..(IF ragged /\ i = R /\ C > 0 THEN C - 1 ELSE C) |-> th]]
MjThetas ==
    {None} \cup {Some(ThetaOf(R, C, th, FALSE)) : R \in 0..MaxLen, C \in 0..MaxLen,
                                                  th \in {Zero, Fin(1, HalfPiF), Inf(1)}}
           \cup {Some(ThetaOf(R, C, Zero, TRUE)) : R \in 1..MaxLen, C \in 1..MaxLen}

InitMjlog ==
    \E nu \in SeqsUpTo(MjNuVals, MaxLen), a \in SeqsUpTo(MjAVals, MaxLen),
       nu0 \in MjNu0Vals, th \in MjThetas :
        Start([NoArgs EXCEPT !.nu_i_hz = nu, !.a_j = a, !.nu0_hz = nu0, !.theta_ij = th], 0)

CallMjlog ==
    Pure([op |-> "mjlog"], mjlog(args.nu_i_hz, args.a_j, args.nu0_hz, args.theta_ij))

NextMjlog == CallMjlog
SpecMjlog == InitMjlog /\ [][NextMjlog]_vars

(***************************************************************************)
(* The retarded variant.                                                   *)
(***************************************************************************)
RetRows == {<<Zero, Zero>>, <<One, Zero>>, <<Zero>>}
InitRetarded ==
    \E X \in SeqsUpTo(RetRows, MaxLen), nu \in SeqsUpTo({Lit(432)}, MaxLen),
       a \in SeqsUpTo({One, Big}, MaxLen), v \in {One, Zero, Lit(-1)}, t \in {Zero, One} :
        Start([NoArgs EXCEPT !.X = X, !.nu_i_hz = nu, !.a_j = a, !.nu0_hz = Lit(432),
                             !.x_star = <<Zero, Zero>>, !.v = v, !.t = t], 0)

CallRetardedDelays ==
    Pure([op |-> "retarded_delays"], retarded_delays(args.X, args.x_star, args.v))
CallBuildRetardedMjlog ==
    Pure([op |-> "build_retarded_mjlog"],
         build_retarded_mjlog(args.X, args.nu_i_hz, args.a_j, args.nu0_hz,
                              args.x_star, args.v, args.t))

NextRetarded == CallRetardedDelays \/ CallBuildRetardedMjlog
SpecRetarded == InitRetarded /\ [][NextRetarded]_vars

(***************************************************************************)
(* The validation harness.                                                 *)
(***************************************************************************)
\* A call of a function that takes the optional generator: with pass the
\* caller's generator is the argument and is left in the state the function
\* brought it to; the second run does the same with its own generator.
Draw(c, r1, r2, pass) ==
    /\ call' = c
    /\ ret' = r1.result
    /\ ret2' = r2.result
    /\ rng' = IF pass THEN r1.gen ELSE rng
    /\ rng2' = IF pass THEN r2.gen ELSE rng2
    /\ rcalls' = IF pass THEN rcalls + 1 ELSE rcalls
    /\ UNCHANGED kept

RngArg(g, pass) == IF pass THEN Some(g) ELSE None

CallSampleMinors ==
    \E n_samples \in 0..MaxSamples, pass \in BOOLEAN :
        /\ pass => rcalls < MaxCalls
        /\ Draw([rng |-> RngArg(rng, pass), n_samples |-> n_samples, op |-> "sample_minors"],
                sample_minors(args.M, n_samples, RngArg(rng, pass)),
                sample_minors(args.M, n_samples, RngArg(rng2, pass)), pass)
        /\ UNCHANGED args

CallPhaseScramble ==
    \E pass \in BOOLEAN :
        /\ pass => rcalls < MaxCalls
        /\ Draw([rng |-> RngArg(rng, pass), op |-> "phase_scramble"],
                phase_scramble(args.M, RngArg(rng, pass)),
                phase_scramble(args.M, RngArg(rng2, pass)), pass)
        /\ UNCHANGED args

CallTauShuffle ==
    \E pass \in BOOLEAN :
        /\ pass => rcalls < MaxCalls
        /\ Draw([tau_i |-> args.tau_i, rng |-> RngArg(rng, pass), op |-> "tau_shuffle"],
                tau_shuffle(args.tau_i, RngArg(rng, pass)),
                tau_shuffle(args.tau_i, RngArg(rng2, pass)), pass)
        /\ args' = [args EXCEPT !.tau_i = tau_shuffle(args.tau_i, RngArg(rng, pass)).tau_i]

\* The matrices: N x K, cell c[1] at the top left, c[2] on the rest of the
\* diagonal, c[3] elsewhere.
MatOf(N, K, c) ==
    [i \in 1..N |-> [j \in 1..K |-> IF i = j THEN (IF i = 1 THEN c[1] ELSE c[2]) ELSE c[3]]]
Cells ==
    {<<CxOf(One), CxOf(One), CxOf(Zero)>>,
     <<Cx(Lit(-1), NegZero), CxOf(One), CxOf(Zero)>>,
     <<CxOf(Zero), CxOf(One), Cx(Zero, One)>>,
     <<CxOf(One), CxOf(One), Cx(Zero, One)>>,
     <<CxOf(Big), CxOf(Big), CxOf(Big)>>}
Matrices == {MatOf(N, K, c) : N \in 0..MaxDim, K \in 0..MaxDim, c \in Cells}

InitSampler ==
    \E M \in Matrices, seed \in {0, 5} :
        Start([NoArgs EXCEPT !.M = M,
                             !.tau_i = <<PyInt(1), Lit(2), FromFix(S \div 2)>>], seed)

NextSampler == CallSampleMinors \/ CallPhaseScramble \/ CallTauShuffle
SpecSampler == InitSampler /\ [][NextSampler]_vars

TauVals == {PyInt(1), Lit(2), FromFix(S \div 2)}
InitShuffle ==
    \E tau \in SeqsUpTo(TauVals, MaxTau), seed \in 0..(RngMod - 1) :
        Start([NoArgs EXCEPT !.tau_i = tau], seed)

NextShuffle == CallTauShuffle
SpecShuffle == InitShuffle /\ [][NextShuffle]_vars

\* The statistics.
PhaseSeqs == {<<>>, <<Zero>>, <<One, One>>, <<Zero, PiFloat>>, <<PyInt(1), Fin(-1, HalfPiF)>>}
CallMeanResultantLength ==
    \E phases \in PhaseSeqs :
        Pure([phases |-> phases, op |-> "mean_resultant_length"],
             mean_resultant_length(phases))

GradTheta == <<<<Zero, PiFloat>>, <<PiFloat, Fin(-1, HalfPiF)>>, <<One, Lit(4)>>>>
GradX == <<<<Zero, Zero>>, <<One, Zero>>, <<Zero, Zero>>>>
GradEdges == SeqsUpTo({<<0, 1>>, <<0, 2>>, <<1, 2>>}, MaxLen)
CallPhaseGradientProxy ==
    \E edges \in GradEdges, j \in 0..1 :
        Pure([j |-> j, theta_ij |-> GradTheta, X |-> GradX, edges |-> edges,
              op |-> "phase_gradient_proxy"],
             phase_gradient_proxy(GradTheta, GradX, edges, j))

\* The differences given to _wrap_pi: the multiples of pi / 8 of MaxTurns
\* turns either way, and the floats next to them.
WrapArgs ==
    {FromFix((k * PiF) \div 8 + e) : k \in (-16 * MaxTurns)..(16 * MaxTurns), e \in {-1, 0, 1}}
CallWrapPi ==
    \E x \in WrapArgs : Pure([x |-> x, op |-> "_wrap_pi"], Return(_wrap_pi(x)))

InitStats ==
    \E N \in {0, MaxDim}, tau \in {<<>>, <<PyInt(1), Lit(2)>>} :
        Start([NoArgs EXCEPT !.M = MatOf(N, N, <<CxOf(One), CxOf(One), Cx(Zero, One)>>),
                             !.tau_i = tau], 0)

NextStats ==
    \/ CallMeanResultantLength
    \/ CallPhaseGradientProxy
    \/ CallSampleMinors
    \/ CallPhaseScramble
    \/ CallTauShuffle
SpecStats == InitStats /\ [][NextStats]_vars

InitWrap == Start(NoArgs, 0)
NextWrap == CallWrapPi \/ CallPhaseGradientProxy
SpecWrap == InitWrap /\ [][NextWrap]_vars

Spec == SpecGates

(***************************************************************************)
(* The claims.                                                             *)
(***************************************************************************)
KeptEligible(g) == kept[g].some /\ kept[g].v.result.eligible
DefaultFlags(c) == ~c.require_432 /\ ~c.require_838

\* C1: whenever gate_44 returned eligible=true, every result of gate_11
\* called with the default flags, of gate_22 and of gate_33 on the same
\* inputs is eligible=true too.
C1_GateChain ==
    KeptEligible("gate_44") =>
        /\ (kept["gate_11"].some /\ DefaultFlags(kept["gate_11"].v.call))
               => kept["gate_11"].v.result.eligible
        /\ kept["gate_22"].some => kept["gate_22"].v.result.eligible
        /\ kept["gate_33"].some => kept["gate_33"].v.result.eligible

\* All four gates have been called on the inputs and gate_44 is eligible.
C1_Witness ==
    /\ KeptEligible("gate_44")
    /\ kept["gate_11"].some /\ DefaultFlags(kept["gate_11"].v.call)
    /\ kept["gate_22"].some
    /\ kept["gate_33"].some

IsPos(x) == FGt(ToFloat(x), Zero)
NonPos(x) == FLe(ToFloat(x), Zero)
\* value is a complete N x K matrix.
IsMatrix(value, N, K) == Len(value) = N /\ \A i \in 1..N : Len(value[i]) = K

MjRejected ==
    \/ NonPos(args.nu0_hz)
    \/ \E i \in 1..Len(args.nu_i_hz) : NonPos(args.nu_i_hz[i])
    \/ \E j \in 1..Len(args.a_j) : NonPos(args.a_j[j])
    \/ /\ args.theta_ij.some
       /\ \/ Len(args.theta_ij.v) # Len(args.nu_i_hz)
          \/ \E i \in 1..Len(args.theta_ij.v) : Len(args.theta_ij.v[i]) # Len(args.a_j)

\* C4: mjlog raises whenever nu0 <= 0, or some nu[i] <= 0, or some a[j] <= 0,
\* or a supplied theta has a row count other than len(nu) or a row whose
\* length is not len(a), whatever the other inputs are; and whenever it does
\* not raise it returns a complete N x K matrix.
C4_MjlogRejects ==
    call.op = "mjlog" =>
        /\ MjRejected => ret.raised
        /\ ~ret.raised => IsMatrix(ret.value, Len(args.nu_i_hz), Len(args.a_j))

\* A non-positive a[j] is rejected although nu is empty and there is no cell.
C4_Witness ==
    /\ call.op = "mjlog"
    /\ args.nu_i_hz = <<>>
    /\ \E j \in 1..Len(args.a_j) : NonPos(args.a_j[j])
    /\ ~NonPos(args.nu0_hz) /\ IsFinite(args.nu0_hz)
    /\ ret.raised

\* C6: with the default constants, a positive f0 and m = 0, the ladder is
\* strictly increasing in n: a call with n + 1 returns more than the call
\* with n before it, which returns more than 0.
C6_LadderIncreasing ==
    [][(/\ call.op = "harmonic_ladder"
        /\ call'.op = "harmonic_ladder"
        /\ call'.n = call.n + 1
        /\ args.m = 0
        /\ IsPos(args.f0_hz))
       => (FGt(ret'.value, ret.value) /\ FGt(ret.value, Zero))]_vars

RetPre ==
    /\ IsPos(args.v)
    /\ \A i \in 1..Len(args.X) : Len(args.X[i]) = Len(args.x_star)
    /\ IsPos(args.nu0_hz)
    /\ \A i \in 1..Len(args.nu_i_hz) : IsPos(args.nu_i_hz[i])
    /\ \A j \in 1..Len(args.a_j) : IsPos(args.a_j[j])
\* The shapes of a returned (M, theta, tau).
RetShapes(value) ==
    LET N == Len(args.nu_i_hz)
        K == Len(args.a_j)
    IN /\ IsMatrix(value[1], N, K)
       /\ IsMatrix(value[2], N, K)
       /\ Len(value[3]) = N
\* Some phase of the retarded phase matrix is not finite, or some
\* log-argument is not finite and > 0.
RetOutOfRange ==
    LET tau == retarded_delays(args.X, args.x_star, args.v).value
        theta == retarded_phase_matrix(args.a_j, tau, args.nu0_hz, args.t, None).value
    IN \/ \E i \in 1..Len(theta) : \E j \in 1..Len(theta[i]) : ~IsFinite(theta[i][j])
       \/ \E i \in 1..Len(args.nu_i_hz) : \E j \in 1..Len(args.a_j) :
              BadLogArg(LogArg(ToFloat(args.nu_i_hz[i]), ToFloat(args.nu0_hz),
                               ToFloat(args.a_j[j])))
RetEarly ==
    \/ NonPos(args.v)
    \/ \E i \in 1..Len(args.X) : Len(args.X[i]) # Len(args.x_star)

Rows(M) == Len(M)
Cols(M) == IF Len(M) # 0 THEN Len(M[1]) ELSE 0
TooSmall(M) == Rows(M) < 2 \/ Cols(M) < 2
MinorDet(M, i1, i2, j1, j2) ==
    CSub(CMul(M[i1][j1], M[i2][j2]), CMul(M[i1][j2], M[i2][j1]))
CxIsNaN(z) == IsNaN(z.re) \/ IsNaN(z.im)
InOpenClosedPi(p) == FLt(FNeg(PiFloat), p) /\ FLe(p, PiFloat)
InClosedPi(p) == FLe(FNeg(PiFloat), p) /\ FLe(p, PiFloat)
Empties == Return(<<<<>>, <<>>>>)

C3_AsClaimed ==
    (call.op = "sample_minors" /\ TooSmall(args.M)) => ret.raised

\* C3 as amended: with fewer than 2 rows or fewer than 2 columns
\* sample_minors fails with ValueError for every S >= 1, and for S = 0 it
\* returns two empty sequences.
C3_FailsWhenSampling ==
    (call.op = "sample_minors" /\ TooSmall(args.M)) =>
        /\ call.n_samples >= 1 => (ret.raised /\ ret.exc = "ValueError")
        /\ call.n_samples = 0 => ret = Empties

\* One row of two columns: S = 1 has failed.
C3_Witness ==
    /\ call.op = "sample_minors"
    /\ Rows(args.M) = 1 /\ Cols(args.M) = 2
    /\ call.n_samples = 1
    /\ ret.raised

Count(seq, v) == Cardinality({i \in 1..Len(seq) : ToFloat(seq[i]) = v})

\* C5: tau_shuffle returns a list of the same length and the same multiset of
\* values as its input, and the caller's sequence is what it was at the call.
C5_ShufflePermutes ==
    call.op = "tau_shuffle" =>
        /\ ~ret.raised
        /\ Len(ret.value) = Len(call.tau_i)
        /\ \A v \in TauVals : Count(ret.value, ToFloat(v)) = Count(call.tau_i, ToFloat(v))
        /\ args.tau_i = call.tau_i

\* A shuffle of distinct delays has returned another order.
C5_Witness ==
    /\ call.op = "tau_shuffle"
    /\ Len(call.tau_i) = MaxTau
    /\ \A i, k \in 1..Len(call.tau_i) : i # k => call.tau_i[i] # call.tau_i[k]
    /\ ret.value # [i \in 1..Len(call.tau_i) |-> ToFloat(call.tau_i[i])]

ZeroDistance(e) == GradX[e[1] + 1] = GradX[e[2] + 1]

\* C7: empty inputs give the neutral value: mean_resultant_length of no
\* phases is 0.0, phase_scramble of the empty matrix is the empty matrix,
\* tau_shuffle of the empty vector is the empty list, phase_gradient_proxy
\* with no edge or only zero-distance edges is 0.0, and sample_minors with
\* S = 0 on a matrix of N, K >= 2 is two empty sequences.
C7_EmptyInputs ==
    /\ (call.op = "mean_resultant_length" /\ call.phases = <<>>) => ret = Return(Zero)
    /\ (call.op = "phase_scramble" /\ args.M = <<>>) => ret = Return(<<>>)
    /\ (call.op = "tau_shuffle" /\ call.tau_i = <<>>) => ret = Return(<<>>)
    /\ (call.op = "phase_gradient_proxy"
          /\ \A e \in 1..Len(call.edges) : ZeroDistance(call.edges[e]))
             => ret = Return(Zero)
    /\ (call.op = "sample_minors" /\ call.n_samples = 0 /\ ~TooSmall(args.M))
             => ret = Empties

\* mean_resultant_length of the empty sequence has returned.
C7_Witness ==
    /\ call.op = "mean_resultant_length"
    /\ call.phases = <<>>
    /\ ~ret.raised

Congruent(x, y) == (Val(x) - Val(y)) % TwoPiF = 0

\* C8 as claimed: _wrap_pi maps x into (-pi, pi], returning +pi and never
\* -pi for x = pi, and the result is congruent to x modulo 2 pi.
C8_AsClaimed ==
    call.op = "_wrap_pi" =>
        /\ InOpenClosedPi(ret.value)
        /\ call.x = PiFloat => ret.value = PiFloat
        /\ Congruent(ret.value, call.x)

\* C8 as amended: _wrap_pi maps x into the closed interval [-pi, pi], x = pi
\* and x = -pi both to -pi, and the result is congruent to x modulo 2 pi.
C8_WrapsToClosedRange ==
    call.op = "_wrap_pi" =>
        /\ InClosedPi(ret.value)
        /\ call.x \in {PiFloat, FNeg(PiFloat)} => ret.value = FNeg(PiFloat)
        /\ Congruent(ret.value, call.x)

\* pi has been wrapped, to -pi.
C8_Witness ==
    /\ call.op = "_wrap_pi"
    /\ call.x = PiFloat
    /\ ret.value = FNeg(PiFloat)

RECURSIVE Advance(_, _)
Advance(g, k) == IF k <= 0 THEN g ELSE Advance(RngStep(g), k - 1)
\* The draws of the call: two per rng.sample (none by the one that fails),
\* one per scrambled cell, one per swap of the shuffle.
Draws ==
    CASE call.op = "sample_minors" ->
             IF call.n_samples = 0 \/ Rows(args.M) < 2 THEN 0
             ELSE IF Cols(args.M) < 2 THEN 2
             ELSE 4 * call.n_samples
      [] call.op = "phase_scramble" -> Rows(args.M) * Cols(args.M)
      [] call.op = "tau_shuffle" -> MaxI(Len(call.tau_i) - 1, 0)
      [] OTHER -> 0

\* C9: a call given the caller's generator returns, in two runs from the same
\* seed, the same result and leaves the same generator state, and that
\* state is the state at the call advanced by the call's draws: nothing is
\* reseeded, and sample_minors draws a row pair and a column pair per sample.
C9_StreamContinues ==
    (call.op \in {"sample_minors", "phase_scramble", "tau_shuffle"} /\ call.rng.some) =>
        /\ ret = ret2
        /\ rng = rng2
        /\ rng = Advance(call.rng.v, Draws)

\* A later call of sample_minors has continued the stream of an earlier call.
C9_Witness ==
    /\ call.op = "sample_minors"
    /\ call.rng.some
    /\ rcalls >= 2
    /\ call.rng.v # Seeded(0)
    /\ ~ret.raised
    /\ call.n_samples = MaxSamples
    /\ rng # call.rng.v
=============================================================================
